---- MODULE Spec2Model ----
(***************************************************************************)
(* HTTP/1 service assembly of actix-http (h1/service.rs):                  *)
(*   H1Service          the service factory                                *)
(*   H1ServiceResponse  the service-initialization future                  *)
(*   H1ServiceHandler   the per-worker service: poll_ready and call        *)
(* and the per-connection Dispatcher that call constructs; and the client  *)
(* connector of awc (connect.rs): DefaultConnector::call and the future    *)
(* ConnectRequestFuture it returns.                                        *)
(***************************************************************************)
EXTENDS Integers, Sequences, FiniteSets, TLC

\* Number of streams the acceptor hands to the handler.
MaxConns == 2
\* Number of requests a client pipelines on one connection.
MaxReqs == 2
\* Number of requests handed to DefaultConnector::call.
MaxFuts == 2
\* Number of builder calls applied to one H1Service.
MaxBuild == 3

None == "None"

VARIABLES
    factory,      \* H1Service: which optional components are configured
    resp,         \* H1ServiceResponse, or None before new_service
    handler,      \* H1ServiceHandler, or None before the future resolves Ok
    lastPoll,     \* what the last H1ServiceHandler::poll_ready call saw and returned
    everReady,    \* some poll_ready call on the handler returned Ready(Ok)
    observedReady,\* in some poll_ready call every held service reported ready
    contract,     \* the caller honours the Service contract (call only after Ready)
    dispatchers,  \* the Dispatchers constructed so far, in order of construction
    bags,         \* the Extensions bags allocated so far: bag id -> contents
    callLog,      \* the steps the last H1ServiceHandler::call took, in order
    hookCalls,    \* stream -> number of on_connect_ext invocations on it
    futs,         \* the ConnectRequestFutures DefaultConnector::call returned
    built         \* what the H1Service builder methods were called with

vars == <<factory, resp, handler, lastPoll, everReady, observedReady, contract,
          dispatchers, bags, callLog, hookCalls, futs,
          built>>

Streams == 1..MaxConns

----------------------------------------------------------------------------
(* H1Service and H1ServiceResponse *)

\* The values the three init futures resolve to.
AppSvc == "AppSvc"
ExpectSvc == "ExpectSvc"
UpgradeSvc == "UpgradeSvc"

\* Poll outcomes of an init future.
InitOutcomes == {"Pending", "Ok", "Err"}

\* H1Service::with_config, then the optional builder calls.
H1Service(upg, hook, ka) ==
    [srv |-> "AppFactory", cfg |-> [keep_alive |-> ka], expect |-> "ExpectFactory",
     upgrade |-> IF upg THEN "UpgradeFactory" ELSE None,
     on_connect_ext |-> IF hook THEN "Callback" ELSE None]

\* No builder call yet.
Unset == "unset"

\* built: the arguments of with_config, the last argument each builder
\* method was called with, and the number of builder calls.
NotBuilt ==
    [cfg |-> [keep_alive |-> FALSE], srv |-> "AppFactory", expect |-> Unset,
     upgrade |-> Unset, callback |-> Unset, n |-> 0]

\* H1Service::new_service
new_service(f) ==
    [fut |-> TRUE,
     fut_ex |-> TRUE,
     fut_upg |-> f.upgrade # None,
     expect |-> None,
     upgrade |-> None,
     on_connect_ext |-> f.on_connect_ext,
     cfg |-> f.cfg,
     ex_done |-> FALSE,
     upg_done |-> FALSE,
     log |-> <<>>,
     out |-> "NotPolled"]

\* No future yet: new_service has not been called.
NoResp ==
    [fut |-> FALSE, fut_ex |-> FALSE, fut_upg |-> FALSE, expect |-> None,
     upgrade |-> None, on_connect_ext |-> None, cfg |-> [keep_alive |-> FALSE],
     ex_done |-> FALSE, upg_done |-> FALSE, log |-> <<>>, out |-> None]

\* No handler yet: the future has not resolved Ok.
NoHandler ==
    [srv |-> None, expect |-> None, upgrade |-> None, on_connect_ext |-> None,
     cfg |-> [keep_alive |-> FALSE]]

\* H1ServiceHandler::new
H1ServiceHandler_new(cfg, srv, expect, upgrade, on_connect_ext) ==
    [srv |-> srv, expect |-> expect, upgrade |-> upgrade,
     on_connect_ext |-> on_connect_ext, cfg |-> cfg]

\* Variant of PollExpect that goes on to the next block on Pending
\* (a missing ready!).
PollExpect_NoWait(r, o) ==
    IF r.fut_ex
    THEN LET r1 == [r EXCEPT !.log = Append(@, <<"fut_ex", o.ex>>)]
         IN  CASE o.ex = "Pending" -> [r1 EXCEPT !.out = "Go"]
               [] o.ex = "Err"     -> [r1 EXCEPT !.out = "Err"]
               [] OTHER            -> [r1 EXCEPT !.expect = ExpectSvc,
                                                 !.fut_ex = FALSE,
                                                 !.ex_done = TRUE,
                                                 !.out = "Go"]
    ELSE [r EXCEPT !.out = "Go"]

\* First block of H1ServiceResponse::poll: the expect init future.
\* Yields the record after the block; out = "Go" when the poll goes on.
\* ex_done and upg_done remember that the future has returned Ready(Ok).
PollExpect(r, o) ==
    IF r.fut_ex
    THEN LET r1 == [r EXCEPT !.log = Append(@, <<"fut_ex", o.ex>>)]
         IN  CASE o.ex = "Pending" -> [r1 EXCEPT !.out = "Pending"]
               [] o.ex = "Err"     -> [r1 EXCEPT !.out = "Err"]
               [] OTHER            -> [r1 EXCEPT !.expect = ExpectSvc,
                                                 !.fut_ex = FALSE,
                                                 !.ex_done = TRUE,
                                                 !.out = "Go"]
    ELSE [r EXCEPT !.out = "Go"]

\* Variant of PollUpgrade that logs an init error and goes on without the
\* upgrade service (a missing ?).
PollUpgrade_SwallowErr(r, o) ==
    IF r.fut_upg
    THEN LET r1 == [r EXCEPT !.log = Append(@, <<"fut_upg", o.upg>>)]
         IN  CASE o.upg = "Pending" -> [r1 EXCEPT !.out = "Pending"]
               [] o.upg = "Err"     -> [r1 EXCEPT !.out = "Go"]
               [] o.upg = "Panic"   -> [r1 EXCEPT !.out = "Panic"]
               [] OTHER             -> [r1 EXCEPT !.upgrade = UpgradeSvc,
                                                  !.fut_ex = FALSE,
                                                  !.upg_done = TRUE,
                                                  !.out = "Go"]
    ELSE [r EXCEPT !.out = "Go"]

\* Second block: the upgrade init future. Line 342 clears fut_ex, not
\* fut_upg, so fut_upg stays Some after it has resolved.
PollUpgrade(r, o) ==
    IF r.fut_upg
    THEN LET r1 == [r EXCEPT !.log = Append(@, <<"fut_upg", o.upg>>)]
         IN  CASE o.upg = "Pending" -> [r1 EXCEPT !.out = "Pending"]
               [] o.upg = "Err"     -> [r1 EXCEPT !.out = "Err"]
               [] o.upg = "Panic"   -> [r1 EXCEPT !.out = "Panic"]
               [] OTHER             -> [r1 EXCEPT !.upgrade = UpgradeSvc,
                                                  !.fut_ex = FALSE,
                                                  !.upg_done = TRUE,
                                                  !.out = "Go"]
    ELSE [r EXCEPT !.out = "Go"]

\* Third block: the application-service init future and the construction
\* of the handler (expect.take().unwrap() panics on an empty slot).
PollService(r, o) ==
    LET r1 == [r EXCEPT !.log = Append(@, <<"fut", o.app>>)]
    IN  CASE o.app = "Pending" -> [r1 EXCEPT !.out = "Pending"]
          [] o.app = "Err"     -> [r1 EXCEPT !.out = "Err"]
          [] OTHER             ->
                IF r1.expect = None
                THEN [r1 EXCEPT !.out = "UnwrapPanic"]
                ELSE [r1 EXCEPT !.out = "Ok", !.fut = FALSE,
                                !.expect = None, !.upgrade = None]

\* H1ServiceResponse::poll: the future after the poll (out: the poll's result).
H1ServiceResponse_poll(r, o) ==
    LET r0 == [r EXCEPT !.log = <<>>]
        r1 == PollExpect(r0, o)
        r2 == IF r1.out = "Go" THEN PollUpgrade(r1, o) ELSE r1
    IN  IF r2.out = "Go" THEN PollService(r2, o) ELSE r2

\* The handler a poll yields: Some exactly when the poll resolves Ok.
H1ServiceResponse_output(r, o) ==
    LET r1 == PollExpect([r EXCEPT !.log = <<>>], o)
        r2 == IF r1.out = "Go" THEN PollUpgrade(r1, o) ELSE r1
        r3 == H1ServiceResponse_poll(r, o)
    IN  IF r3.out = "Ok"
        THEN H1ServiceHandler_new(r2.cfg, AppSvc, r2.expect, r2.upgrade,
                                  r2.on_connect_ext)
        ELSE NoHandler

----------------------------------------------------------------------------
(* H1ServiceHandler::poll_ready *)

Services == {"expect", "srv", "upgrade"}
ReadyOutcomes == {"Ready", "Pending", "Err"}

\* The services the handler holds.
Held(h) == IF h.upgrade # None THEN Services ELSE {"expect", "srv"}

\* Results of poll_ready. A readiness error is converted by the map_err
\* closure into DispatchError::Service.
PollReadyOk == [tag |-> "Ready", err |-> None, src |-> None]
PollPending == [tag |-> "Pending", err |-> None, src |-> None]
DispatchErrorService(s) == [tag |-> "Err", err |-> "DispatchError::Service", src |-> s]

\* lastPoll before the first poll_ready call.
NoPoll ==
    [n |-> 0, obs |-> [s \in {} |-> "Ready"], polled |-> <<>>,
     result |-> [tag |-> None, err |-> None, src |-> None]]

\* Variant of poll_ready that leaves the upgrade service's answer out of the
\* conjunction.
poll_ready_IgnoreUpgrade(h, obs) ==
    IF obs["expect"] = "Err"
    THEN [polled |-> <<"expect">>, result |-> DispatchErrorService("expect")]
    ELSE IF obs["srv"] = "Err"
    THEN [polled |-> <<"expect", "srv">>, result |-> DispatchErrorService("srv")]
    ELSE IF h.upgrade # None /\ obs["upgrade"] = "Err"
    THEN [polled |-> <<"expect", "srv", "upgrade">>,
          result |-> DispatchErrorService("upgrade")]
    ELSE [polled |-> IF h.upgrade # None THEN <<"expect", "srv", "upgrade">>
                                         ELSE <<"expect", "srv">>,
          result |-> IF obs["expect"] = "Ready" /\ obs["srv"] = "Ready"
                     THEN PollReadyOk ELSE PollPending]

\* Variant of poll_ready whose second step drops "&& ready": the expect
\* service's answer is forgotten.
poll_ready_DropExpect(h, obs) ==
    IF obs["expect"] = "Err"
    THEN [polled |-> <<"expect">>, result |-> DispatchErrorService("expect")]
    ELSE IF obs["srv"] = "Err"
    THEN [polled |-> <<"expect", "srv">>, result |-> DispatchErrorService("srv")]
    ELSE IF h.upgrade # None /\ obs["upgrade"] = "Err"
    THEN [polled |-> <<"expect", "srv", "upgrade">>,
          result |-> DispatchErrorService("upgrade")]
    ELSE [polled |-> IF h.upgrade # None THEN <<"expect", "srv", "upgrade">>
                                         ELSE <<"expect", "srv">>,
          result |-> IF obs["srv"] = "Ready"
                        /\ (h.upgrade # None => obs["upgrade"] = "Ready")
                     THEN PollReadyOk ELSE PollPending]

\* Variant of poll_ready that takes an error of the application service for
\* not ready (a missing ?).
poll_ready_SwallowErr(h, obs) ==
    IF obs["expect"] = "Err"
    THEN [polled |-> <<"expect">>, result |-> DispatchErrorService("expect")]
    ELSE IF h.upgrade # None /\ obs["upgrade"] = "Err"
    THEN [polled |-> <<"expect", "srv", "upgrade">>,
          result |-> DispatchErrorService("upgrade")]
    ELSE [polled |-> IF h.upgrade # None THEN <<"expect", "srv", "upgrade">>
                                         ELSE <<"expect", "srv">>,
          result |-> IF \A s \in Held(h) : obs[s] = "Ready"
                     THEN PollReadyOk ELSE PollPending]

\* Variant of poll_ready that returns Pending as soon as the expect service
\* is not ready, without polling the services after it.
poll_ready_ShortCircuit(h, obs) ==
    IF obs["expect"] = "Err"
    THEN [polled |-> <<"expect">>, result |-> DispatchErrorService("expect")]
    ELSE IF obs["expect"] = "Pending"
    THEN [polled |-> <<"expect">>, result |-> PollPending]
    ELSE IF obs["srv"] = "Err"
    THEN [polled |-> <<"expect", "srv">>, result |-> DispatchErrorService("srv")]
    ELSE IF h.upgrade # None /\ obs["upgrade"] = "Err"
    THEN [polled |-> <<"expect", "srv", "upgrade">>,
          result |-> DispatchErrorService("upgrade")]
    ELSE [polled |-> IF h.upgrade # None THEN <<"expect", "srv", "upgrade">>
                                         ELSE <<"expect", "srv">>,
          result |-> IF \A s \in Held(h) : obs[s] = "Ready"
                     THEN PollReadyOk ELSE PollPending]

\* H1ServiceHandler::poll_ready: the services polled, in order, and the result.
\* obs[s] is what service s answers to poll_ready in this call.
poll_ready(h, obs) ==
    IF obs["expect"] = "Err"
    THEN [polled |-> <<"expect">>, result |-> DispatchErrorService("expect")]
    ELSE LET ready1 == obs["expect"] = "Ready"
         IN  IF obs["srv"] = "Err"
             THEN [polled |-> <<"expect", "srv">>,
                   result |-> DispatchErrorService("srv")]
             ELSE LET ready2 == obs["srv"] = "Ready" /\ ready1
                  IN  IF h.upgrade # None
                      THEN IF obs["upgrade"] = "Err"
                           THEN [polled |-> <<"expect", "srv", "upgrade">>,
                                 result |-> DispatchErrorService("upgrade")]
                           ELSE [polled |-> <<"expect", "srv", "upgrade">>,
                                 result |-> IF obs["upgrade"] = "Ready" /\ ready2
                                            THEN PollReadyOk
                                            ELSE PollPending]
                      ELSE [polled |-> <<"expect", "srv">>,
                            result |-> IF ready2 THEN PollReadyOk
                                                 ELSE PollPending]

----------------------------------------------------------------------------
(* H1ServiceHandler::call and Dispatcher::new *)

\* The peer address the acceptor passes with stream io.
PeerAddr(io) == <<"peer", io>>

\* What the on_connect_ext callback stamps into the bag for stream io.
Stamp(io) == <<"on_connect", io>>

\* Dispatcher::new: the initial dispatcher state: Normal, nothing read,
\* ka_timer armed at now + client_request_timeout, the framed stream owned.
\*   readbuf   the complete request heads in the read buffer, not yet decoded
\*   partial   bytes of a further, incomplete head are in the read buffer
\*   payload   the sender half of the current request's body exists
\*   invoked, bodyRead, rejected   requests passed to the application service,
\*             whose body was read, and refused by the expect service
Dispatcher_new(io, cfg, srv, expect, upgrade, ext, addr) ==
    [io |-> io, cfg |-> cfg, srv |-> srv, expect |-> expect, upgrade |-> upgrade,
     ext |-> ext, addr |-> addr,
     state |-> "Normal", readbuf |-> <<>>, nread |-> 0, active |-> {},
     wire |-> <<>>, keepalive |-> cfg.keep_alive,
     ka_timer |-> TRUE, partial |-> FALSE, payload |-> FALSE,
     framed |-> "owned", handoffs |-> 0,
     invoked |-> {}, bodyRead |-> {}, rejected |-> {}]

\* One step of call, as recorded in callLog.
Event(ev, io, ext) == [ev |-> ev, io |-> io, ext |-> ext]

\* Variant of call that runs the callback after Dispatcher::new.
call_HookAfter(h, io, addr, heap) ==
    LET id == Len(heap) + 1
        heap1 == Append(heap, {})
        hooked == h.on_connect_ext # None
        heap2 == IF hooked THEN [heap1 EXCEPT ![id] = @ \cup {Stamp(io)}] ELSE heap1
    IN  [log |-> <<Event("Extensions::new", 0, id), Event("Dispatcher::new", io, id)>>
                 \o (IF hooked THEN <<Event("on_connect_ext", io, id)>> ELSE <<>>),
         heap |-> heap2,
         dispatcher |-> Dispatcher_new(io, h.cfg, h.srv, h.expect, h.upgrade, id, addr)]

\* Variant of call that keeps one Extensions bag for every connection.
call_SharedBag(h, io, addr, heap) ==
    LET id == 1
        heap1 == IF heap = <<>> THEN <<{}>> ELSE heap
        hooked == h.on_connect_ext # None
        heap2 == IF hooked THEN [heap1 EXCEPT ![id] = @ \cup {Stamp(io)}] ELSE heap1
    IN  [log |-> <<Event("Extensions::new", 0, id)>>
                 \o (IF hooked THEN <<Event("on_connect_ext", io, id)>> ELSE <<>>)
                 \o <<Event("Dispatcher::new", io, id)>>,
         heap |-> heap2,
         dispatcher |-> Dispatcher_new(io, h.cfg, h.srv, h.expect, h.upgrade, id, addr)]

\* Variant of call that hands the Dispatcher no upgrade service (a take()
\* where a clone() belongs would leave later connections without it).
call_DropUpgrade(h, io, addr, heap) ==
    LET id == Len(heap) + 1
        heap1 == Append(heap, {})
        hooked == h.on_connect_ext # None
        heap2 == IF hooked THEN [heap1 EXCEPT ![id] = @ \cup {Stamp(io)}] ELSE heap1
    IN  [log |-> <<Event("Extensions::new", 0, id)>>
                 \o (IF hooked THEN <<Event("on_connect_ext", io, id)>> ELSE <<>>)
                 \o <<Event("Dispatcher::new", io, id)>>,
         heap |-> heap2,
         dispatcher |-> Dispatcher_new(io, h.cfg, h.srv, h.expect, None, id, addr)]

\* H1ServiceHandler::call: heap is the bags allocated so far. Yields the steps
\* taken in order, the heap afterwards and the Dispatcher returned.
call(h, io, addr, heap) ==
    LET id == Len(heap) + 1
        heap1 == Append(heap, {})
        hooked == h.on_connect_ext # None
        heap2 == IF hooked THEN [heap1 EXCEPT ![id] = @ \cup {Stamp(io)}] ELSE heap1
    IN  [log |-> <<Event("Extensions::new", 0, id)>>
                 \o (IF hooked THEN <<Event("on_connect_ext", io, id)>> ELSE <<>>)
                 \o <<Event("Dispatcher::new", io, id)>>,
         heap |-> heap2,
         dispatcher |-> Dispatcher_new(io, h.cfg, h.srv, h.expect, h.upgrade, id, addr)]

----------------------------------------------------------------------------
(* The Dispatcher state machine (spec, section 4.4) *)

Live == {"Normal", "ExpectCall", "ServiceCall", "SendPayload"}

\* A wire message: the interim 100 Continue or the response to request req;
\* close says the head carries Connection: close.
Msg(kind, req, close) == [kind |-> kind, req |-> req, close |-> close]

\* The kinds of request head: plain, with Expect: 100-continue, or asking
\* for a protocol upgrade.
HeadKinds == {"plain", "expect", "upgrade"}

\* Transition 1: the stream yields k more pipelined request heads, completing
\* a head that had arrived in part.
DispRead(d, k) ==
    [d EXCEPT !.readbuf = @ \o [i \in 1..k |-> d.nread + i], !.nread = @ + k,
              !.partial = FALSE]

\* Transition 1: the stream yields part of a request head; the decoder
\* yields None and the bytes stay in the read buffer.
DispReadPartial(d) == [d EXCEPT !.partial = TRUE]

\* Variant of CanDecode that decodes a buffered head in any live state.
CanDecode_Eager(d) == d.state \in Live /\ d.readbuf # <<>>

\* Variant of CanDecode that decodes the next head once the response head
\* is encoded, while the body is still being sent.
CanDecode_WhileSending(d) == d.state \in {"Normal", "SendPayload"} /\ d.readbuf # <<>>

\* A request head in the read buffer may be decoded: only in Normal, that is
\* after the previous response has been fully encoded.
CanDecode(d) == d.state = "Normal" /\ d.readbuf # <<>>

\* Variant of DispDecode that enters Upgrade whether or not an upgrade
\* service is configured.
DispDecode_AlwaysUpgrade(d, kind) ==
    LET r == Head(d.readbuf)
        d1 == [d EXCEPT !.readbuf = Tail(@), !.active = @ \cup {r},
                        !.ka_timer = FALSE]
    IN  CASE kind = "upgrade" -> [d1 EXCEPT !.state = "Upgrade"]
          [] kind = "expect"  -> [d1 EXCEPT !.state = "ExpectCall"]
          [] OTHER            -> [d1 EXCEPT !.state = "ServiceCall",
                                            !.payload = TRUE,
                                            !.invoked = @ \cup {r}]

\* Transition 2: head decoded, the request timer stops. An upgrade head goes
\* to Upgrade if an upgrade service is configured, an Expect head to
\* ExpectCall; otherwise the payload sender is attached and the request is
\* passed to the application service.
DispDecode(d, kind) ==
    LET r == Head(d.readbuf)
        d1 == [d EXCEPT !.readbuf = Tail(@), !.active = @ \cup {r},
                        !.ka_timer = FALSE]
    IN  CASE kind = "upgrade" /\ d.upgrade # None -> [d1 EXCEPT !.state = "Upgrade"]
          [] kind = "expect" -> [d1 EXCEPT !.state = "ExpectCall"]
          [] OTHER           -> [d1 EXCEPT !.state = "ServiceCall",
                                           !.payload = TRUE,
                                           !.invoked = @ \cup {r}]

\* Variant of DispExpect that writes 100 Continue before it looks at the
\* expect service's verdict.
DispExpect_ContinueFirst(d, r, ok) ==
    IF ok
    THEN [d EXCEPT !.wire = Append(@, Msg("100", r, FALSE)), !.state = "ServiceCall",
                   !.payload = TRUE, !.invoked = @ \cup {r}]
    ELSE [d EXCEPT !.wire = @ \o <<Msg("100", r, FALSE), Msg("response", r, TRUE)>>,
                   !.state = "SendPayload", !.keepalive = FALSE,
                   !.rejected = @ \cup {r}]

\* Transition 3: the expect service answers request r. Ok: 100 Continue is
\* encoded and the request goes to the application service. Err: the error
\* response is encoded, the service is skipped and keep-alive is denied.
DispExpect(d, r, ok) ==
    IF ok
    THEN [d EXCEPT !.wire = Append(@, Msg("100", r, FALSE)), !.state = "ServiceCall",
                   !.payload = TRUE, !.invoked = @ \cup {r}]
    ELSE [d EXCEPT !.wire = Append(@, Msg("response", r, TRUE)),
                   !.state = "SendPayload", !.keepalive = FALSE,
                   !.rejected = @ \cup {r}]

\* Transition 4: a body chunk of the current request is decoded and pushed
\* into its payload sender.
DispReadBody(d) == [d EXCEPT !.bodyRead = @ \cup d.active]

\* Variant of DispRespond that takes the peer's consent alone for the
\* keep-alive decision.
DispRespond_IgnoreConfig(d, r, consent) ==
    [d EXCEPT !.wire = Append(@, Msg("response", r, ~consent)),
              !.state = "SendPayload", !.keepalive = consent]

\* Transition 5: the application answers request r; both sides must consent
\* to keep-alive, and the head carries Connection: close when it is denied.
DispRespond(d, r, consent) ==
    LET ka == d.cfg.keep_alive /\ consent
    IN  [d EXCEPT !.wire = Append(@, Msg("response", r, ~ka)),
                  !.state = "SendPayload", !.keepalive = ka]

\* Transition 6: body EOF; the request whose response was sent is destroyed.
\* With keep-alive ka_timer is armed and the dispatcher re-enters Normal.
DispBodyEof(d) ==
    [d EXCEPT !.active = @ \ {d.wire[Len(d.wire)].req},
              !.payload = FALSE,
              !.ka_timer = d.keepalive,
              !.state = IF d.keepalive THEN "Normal" ELSE "Shutdown"]

\* Transition 7: the framed stream is moved to the upgrade service.
DispUpgrade(d) == [d EXCEPT !.framed = "moved", !.handoffs = @ + 1]

\* Eof on an empty buffer, or expiry of ka_timer: the connection closes
\* without a response.
DispClose(d) == [d EXCEPT !.state = "Shutdown", !.ka_timer = FALSE]

----------------------------------------------------------------------------
(* Actions *)

Init ==
    /\ \E upg \in BOOLEAN, hook \in BOOLEAN, ka \in BOOLEAN :
            factory = H1Service(upg, hook, ka)
    /\ contract \in BOOLEAN
    /\ resp = NoResp
    /\ handler = NoHandler
    /\ lastPoll = NoPoll
    /\ everReady = FALSE
    /\ observedReady = FALSE
    /\ dispatchers = <<>>
    /\ bags = <<>>
    /\ callLog = <<>>
    /\ hookCalls = [io \in Streams |-> 0]
    /\ futs = <<>>
    /\ built = NotBuilt

NewService ==
    /\ resp = NoResp
    /\ resp' = new_service(factory)
    /\ UNCHANGED <<factory, handler, lastPoll, everReady, observedReady, contract,
                   dispatchers, bags, callLog, hookCalls, futs, built>>

\* The executor polls the init future until it resolves. A future polled
\* again after it resolved may do anything, a panic included.
PollInit ==
    /\ resp.out \in {"NotPolled", "Pending"}
    /\ \E ex \in InitOutcomes, app \in InitOutcomes,
          upg \in InitOutcomes \cup (IF resp.upg_done THEN {"Panic"} ELSE {}) :
          LET o == [ex |-> ex, upg |-> upg, app |-> app]
          IN  /\ resp' = H1ServiceResponse_poll(resp, o)
              /\ handler' = H1ServiceResponse_output(resp, o)
    /\ UNCHANGED <<factory, lastPoll, everReady, observedReady, contract,
                   dispatchers, bags, callLog, hookCalls, futs, built>>

\* What the services polled in one poll_ready call answered.
Seen(polled, obs) ==
    [s \in {polled[i] : i \in DOMAIN polled} |-> obs[s]]

\* Variant of PollReady that shuts the accepted connections down when the
\* services are not ready.
PollReady_Cancel ==
    /\ handler # NoHandler
    /\ \E obs \in [Held(handler) -> ReadyOutcomes] :
          LET p == poll_ready(handler, obs)
          IN  /\ lastPoll' = [n |-> 1 - lastPoll.n, obs |-> Seen(p.polled, obs),
                              polled |-> p.polled, result |-> p.result]
              /\ everReady' = (everReady \/ p.result = PollReadyOk)
              /\ observedReady' =
                    (observedReady \/ \A s \in Held(handler) : obs[s] = "Ready")
              /\ dispatchers' = IF p.result = PollReadyOk THEN dispatchers
                                ELSE [i \in DOMAIN dispatchers |->
                                        [dispatchers[i] EXCEPT !.state = "Shutdown"]]
    /\ UNCHANGED <<factory, resp, handler, contract, bags, callLog, hookCalls, futs, built>>

PollReady ==
    /\ handler # NoHandler
    /\ \E obs \in [Held(handler) -> ReadyOutcomes] :
          LET p == poll_ready(handler, obs)
          IN  /\ lastPoll' = [n |-> 1 - lastPoll.n, obs |-> Seen(p.polled, obs),
                              polled |-> p.polled, result |-> p.result]
              /\ everReady' = (everReady \/ p.result = PollReadyOk)
              /\ observedReady' =
                    (observedReady \/ \A s \in Held(handler) : obs[s] = "Ready")
    /\ UNCHANGED <<factory, resp, handler, contract, dispatchers, bags, callLog,
                   hookCalls, futs, built>>

\* The acceptor hands the next stream to the handler.
Call ==
    /\ handler # NoHandler
    /\ Len(dispatchers) < MaxConns
    /\ contract => everReady
    /\ LET io == Len(dispatchers) + 1
           c == call(handler, io, PeerAddr(io), bags)
       IN  /\ callLog' = c.log
           /\ bags' = c.heap
           /\ dispatchers' = Append(dispatchers,
                  c.dispatcher @@ [afterReady |-> everReady,
                                   afterObserved |-> observedReady])
           /\ hookCalls' = [s \in Streams |->
                  hookCalls[s] + Cardinality({i \in DOMAIN c.log :
                      c.log[i].ev = "on_connect_ext" /\ c.log[i].io = s})]
    /\ UNCHANGED <<factory, resp, handler, lastPoll, everReady, observedReady,
                   contract, futs, built>>

DispFrame ==
    UNCHANGED <<factory, resp, handler, lastPoll, everReady, observedReady,
                contract, bags, callLog, hookCalls, futs, built>>

Read(c) ==
    /\ dispatchers[c].state \in Live
    /\ \E k \in 1..(MaxReqs - dispatchers[c].nread) :
          dispatchers' = [dispatchers EXCEPT ![c] = DispRead(@, k)]
    /\ DispFrame

ReadPartial(c) ==
    /\ dispatchers[c].state \in Live
    /\ dispatchers[c].nread < MaxReqs
    /\ ~dispatchers[c].partial
    /\ dispatchers' = [dispatchers EXCEPT ![c] = DispReadPartial(@)]
    /\ DispFrame

Decode(c) ==
    /\ CanDecode(dispatchers[c])
    /\ \E kind \in HeadKinds :
          dispatchers' = [dispatchers EXCEPT ![c] = DispDecode(@, kind)]
    /\ DispFrame

ExpectDone(c) ==
    /\ dispatchers[c].state = "ExpectCall"
    /\ \E r \in dispatchers[c].active, ok \in BOOLEAN :
          dispatchers' = [dispatchers EXCEPT ![c] = DispExpect(@, r, ok)]
    /\ DispFrame

ReadBody(c) ==
    /\ dispatchers[c].state \in {"ServiceCall", "SendPayload"}
    /\ dispatchers[c].payload
    /\ dispatchers' = [dispatchers EXCEPT ![c] = DispReadBody(@)]
    /\ DispFrame

Respond(c) ==
    /\ dispatchers[c].state = "ServiceCall"
    /\ \E r \in dispatchers[c].active, consent \in BOOLEAN :
          dispatchers' = [dispatchers EXCEPT ![c] = DispRespond(@, r, consent)]
    /\ DispFrame

BodyEof(c) ==
    /\ dispatchers[c].state = "SendPayload"
    /\ dispatchers' = [dispatchers EXCEPT ![c] = DispBodyEof(@)]
    /\ DispFrame

UpgradeHandoff(c) ==
    /\ dispatchers[c].state = "Upgrade"
    /\ dispatchers[c].framed = "owned"
    /\ dispatchers' = [dispatchers EXCEPT ![c] = DispUpgrade(@)]
    /\ DispFrame

\* Transition 1, Eof with an empty buffer.
StreamEof(c) ==
    /\ dispatchers[c].state = "Normal"
    /\ dispatchers[c].readbuf = <<>>
    /\ ~dispatchers[c].partial
    /\ dispatchers' = [dispatchers EXCEPT ![c] = DispClose(@)]
    /\ DispFrame

\* ka_timer expires.
Timeout(c) ==
    /\ dispatchers[c].ka_timer
    /\ dispatchers[c].state \in Live
    /\ dispatchers' = [dispatchers EXCEPT ![c] = DispClose(@)]
    /\ DispFrame

\* Transition 8: flushed and closed; the dispatcher terminates.
ShutdownDone(c) ==
    /\ dispatchers[c].state = "Shutdown"
    /\ dispatchers' = [dispatchers EXCEPT ![c].state = "Done"]
    /\ DispFrame

Next ==
    \/ NewService
    \/ PollInit
    \/ PollReady
    \/ Call

Spec == Init /\ [][Next]_vars

----------------------------------------------------------------------------
(* One accepted connection, driven by its Dispatcher *)

\* The handler once every init future has resolved Ok in one poll.
BuiltHandler(f) ==
    H1ServiceResponse_output(new_service(f), [ex |-> "Ok", upg |-> "Ok", app |-> "Ok"])

\* The state after new_service, the init poll, a poll_ready that found every
\* service ready, and the call that accepted stream 1.
DispInit ==
    /\ \E upg \in BOOLEAN, hook \in BOOLEAN, ka \in BOOLEAN :
            factory = H1Service(upg, hook, ka)
    /\ contract = TRUE
    /\ resp = H1ServiceResponse_poll(new_service(factory),
                                     [ex |-> "Ok", upg |-> "Ok", app |-> "Ok"])
    /\ handler = BuiltHandler(factory)
    /\ LET obs == [s \in Held(handler) |-> "Ready"]
           p == poll_ready(handler, obs)
       IN  lastPoll = [n |-> 1, obs |-> Seen(p.polled, obs), polled |-> p.polled,
                       result |-> p.result]
    /\ everReady = TRUE
    /\ observedReady = TRUE
    /\ LET c == call(handler, 1, PeerAddr(1), <<>>)
       IN  /\ callLog = c.log
           /\ bags = c.heap
           /\ dispatchers = <<c.dispatcher @@ [afterReady |-> TRUE,
                                                afterObserved |-> TRUE]>>
           /\ hookCalls = [s \in Streams |->
                  Cardinality({i \in DOMAIN c.log :
                      c.log[i].ev = "on_connect_ext" /\ c.log[i].io = s})]
    /\ futs = <<>>
    /\ built = NotBuilt

DispNext ==
    \/ \E c \in DOMAIN dispatchers : Read(c)
    \/ \E c \in DOMAIN dispatchers : ReadPartial(c)
    \/ \E c \in DOMAIN dispatchers : ReadBody(c)
    \/ \E c \in DOMAIN dispatchers : UpgradeHandoff(c)
    \/ \E c \in DOMAIN dispatchers : Timeout(c)
    \/ \E c \in DOMAIN dispatchers : Decode(c)
    \/ \E c \in DOMAIN dispatchers : ExpectDone(c)
    \/ \E c \in DOMAIN dispatchers : Respond(c)
    \/ \E c \in DOMAIN dispatchers : BodyEof(c)
    \/ \E c \in DOMAIN dispatchers : StreamEof(c)
    \/ \E c \in DOMAIN dispatchers : ShutdownDone(c)

DispSpec == DispInit /\ [][DispNext]_vars

----------------------------------------------------------------------------
(* awc: DefaultConnector::call and ConnectRequestFuture (connect.rs) *)

\* The variants of ConnectRequest (and of ConnectResponse).
Variants == {"Client", "Tunnel"}

\* Poll outcomes of the connector future and of the send/tunnel future.
ConnOutcomes == {"Pending", "Ok", "Err"}

\* Results of ConnectRequestFuture::poll. The ? on the connector future
\* converts ConnectError into SendRequestError::Connect.
NotPolled == [tag |-> "NotPolled", variant |-> None, err |-> None]
ConnPending == [tag |-> "Pending", variant |-> None, err |-> None]
ReadyOk(v) == [tag |-> "Ok", variant |-> v, err |-> None]
ReadyErr(e) == [tag |-> "Err", variant |-> None, err |-> e]
UnwrapPanic == [tag |-> "Panic", variant |-> None, err |-> "unwrap on None"]

\* DefaultConnector::call: the future starts in Connection and holds the
\* request.
\*   kind     the variant of the request passed to call
\*   stage    the variant of ConnectRequestFuture
\*   req      the request slot is Some
\*   sends, tunnels   calls of send_request and open_tunnel so far
\*   log      the inner futures the last poll polled, with their outcomes
\*   out      what the last poll returned
\*   conv     the conversion applied to the result, and what it gave
DefaultConnector_call(kind) ==
    [kind |-> kind, stage |-> "Connection", req |-> TRUE,
     sends |-> 0, tunnels |-> 0, log |-> <<>>, out |-> NotPolled,
     conv |-> [into |-> None, res |-> None]]

\* Variant of ConnectRequestFuture_poll that opens a tunnel for every
\* request, whatever its variant.
RECURSIVE ConnectRequestFuture_poll_AlwaysTunnel(_, _)
ConnectRequestFuture_poll_AlwaysTunnel(f, o) ==
    CASE f.stage = "Connection" ->
            LET f1 == [f EXCEPT !.log = Append(@, <<"Connection", o.conn>>)]
            IN  CASE o.conn = "Pending" -> [f1 EXCEPT !.out = ConnPending]
                  [] o.conn = "Err" ->
                        [f1 EXCEPT !.out = ReadyErr("SendRequestError::Connect")]
                  [] OTHER ->
                        IF ~f1.req
                        THEN [f1 EXCEPT !.out = UnwrapPanic]
                        ELSE ConnectRequestFuture_poll_AlwaysTunnel(
                                 [f1 EXCEPT !.req = FALSE, !.stage = "Tunnel",
                                            !.tunnels = @ + 1], o)
      [] f.stage = "Client" ->
            LET f1 == [f EXCEPT !.log = Append(@, <<"Client", o.io>>)]
            IN  CASE o.io = "Pending" -> [f1 EXCEPT !.out = ConnPending]
                  [] o.io = "Err" -> [f1 EXCEPT !.out = ReadyErr("SendRequestError")]
                  [] OTHER -> [f1 EXCEPT !.out = ReadyOk("Client")]
      [] OTHER ->
            LET f1 == [f EXCEPT !.log = Append(@, <<"Tunnel", o.io>>)]
            IN  CASE o.io = "Pending" -> [f1 EXCEPT !.out = ConnPending]
                  [] o.io = "Err" -> [f1 EXCEPT !.out = ReadyErr("SendRequestError")]
                  [] OTHER -> [f1 EXCEPT !.out = ReadyOk("Tunnel")]

\* Variant of ConnectRequestFuture_poll that sends the request without
\* taking it and without replacing itself: it stays in Connection holding
\* the request, and polls the send/tunnel future it just built.
ConnectRequestFuture_poll_NoSet(f, o) ==
    CASE f.stage = "Connection" ->
            LET f1 == [f EXCEPT !.log = Append(@, <<"Connection", o.conn>>)]
            IN  CASE o.conn = "Pending" -> [f1 EXCEPT !.out = ConnPending]
                  [] o.conn = "Err" ->
                        [f1 EXCEPT !.out = ReadyErr("SendRequestError::Connect")]
                  [] OTHER ->
                        LET f2 == [f1 EXCEPT
                                      !.sends = IF f1.kind = "Client" THEN @ + 1 ELSE @,
                                      !.tunnels = IF f1.kind = "Tunnel" THEN @ + 1 ELSE @,
                                      !.log = Append(@, <<f1.kind, o.io>>)]
                        IN  CASE o.io = "Pending" -> [f2 EXCEPT !.out = ConnPending]
                              [] o.io = "Err" ->
                                    [f2 EXCEPT !.out = ReadyErr("SendRequestError")]
                              [] OTHER -> [f2 EXCEPT !.out = ReadyOk(f2.kind)]
      [] OTHER ->
            LET f1 == [f EXCEPT !.log = Append(@, <<f.stage, o.io>>)]
            IN  CASE o.io = "Pending" -> [f1 EXCEPT !.out = ConnPending]
                  [] o.io = "Err" -> [f1 EXCEPT !.out = ReadyErr("SendRequestError")]
                  [] OTHER -> [f1 EXCEPT !.out = ReadyOk(f.stage)]

\* Variant of ConnectRequestFuture_poll that drops a connector error and
\* returns Pending, to try again on the next poll.
ConnectRequestFuture_poll_DropConnectErr(f, o) ==
    CASE f.stage = "Connection" ->
            LET f1 == [f EXCEPT !.log = Append(@, <<"Connection", o.conn>>)]
            IN  CASE o.conn \in {"Pending", "Err"} -> [f1 EXCEPT !.out = ConnPending]
                  [] OTHER ->
                        LET f2 == [f1 EXCEPT
                                      !.req = FALSE, !.stage = f1.kind,
                                      !.sends = IF f1.kind = "Client" THEN @ + 1 ELSE @,
                                      !.tunnels = IF f1.kind = "Tunnel" THEN @ + 1 ELSE @,
                                      !.log = Append(@, <<f1.kind, o.io>>)]
                        IN  CASE o.io = "Pending" -> [f2 EXCEPT !.out = ConnPending]
                              [] o.io = "Err" ->
                                    [f2 EXCEPT !.out = ReadyErr("SendRequestError")]
                              [] OTHER -> [f2 EXCEPT !.out = ReadyOk(f2.kind)]
      [] OTHER ->
            LET f1 == [f EXCEPT !.log = Append(@, <<f.stage, o.io>>)]
            IN  CASE o.io = "Pending" -> [f1 EXCEPT !.out = ConnPending]
                  [] o.io = "Err" -> [f1 EXCEPT !.out = ReadyErr("SendRequestError")]
                  [] OTHER -> [f1 EXCEPT !.out = ReadyOk(f.stage)]

\* Variant of ConnectRequestFuture_poll that returns Pending right after it
\* replaced itself by Client or Tunnel, without polling itself again.
ConnectRequestFuture_poll_NoRepoll(f, o) ==
    CASE f.stage = "Connection" ->
            LET f1 == [f EXCEPT !.log = Append(@, <<"Connection", o.conn>>)]
            IN  CASE o.conn = "Pending" -> [f1 EXCEPT !.out = ConnPending]
                  [] o.conn = "Err" ->
                        [f1 EXCEPT !.out = ReadyErr("SendRequestError::Connect")]
                  [] OTHER ->
                        [f1 EXCEPT
                            !.req = FALSE, !.stage = f1.kind,
                            !.sends = IF f1.kind = "Client" THEN @ + 1 ELSE @,
                            !.tunnels = IF f1.kind = "Tunnel" THEN @ + 1 ELSE @,
                            !.out = ConnPending]
      [] OTHER ->
            LET f1 == [f EXCEPT !.log = Append(@, <<f.stage, o.io>>)]
            IN  CASE o.io = "Pending" -> [f1 EXCEPT !.out = ConnPending]
                  [] o.io = "Err" -> [f1 EXCEPT !.out = ReadyErr("SendRequestError")]
                  [] OTHER -> [f1 EXCEPT !.out = ReadyOk(f.stage)]

\* ConnectRequestFuture::poll on future f; o.conn is what the connector
\* future answers if polled, o.io what the send/tunnel future answers.
\* In Connection, once the connection is ready the request is taken, sent
\* (send_request or open_tunnel), the future replaces itself by Client or
\* Tunnel and polls itself again.
RECURSIVE ConnectRequestFuture_poll(_, _)
ConnectRequestFuture_poll(f, o) ==
    CASE f.stage = "Connection" ->
            LET f1 == [f EXCEPT !.log = Append(@, <<"Connection", o.conn>>)]
            IN  CASE o.conn = "Pending" -> [f1 EXCEPT !.out = ConnPending]
                  [] o.conn = "Err" ->
                        [f1 EXCEPT !.out = ReadyErr("SendRequestError::Connect")]
                  [] OTHER ->
                        IF ~f1.req
                        THEN [f1 EXCEPT !.out = UnwrapPanic]
                        ELSE IF f1.kind = "Client"
                        THEN ConnectRequestFuture_poll(
                                 [f1 EXCEPT !.req = FALSE, !.stage = "Client",
                                            !.sends = @ + 1], o)
                        ELSE ConnectRequestFuture_poll(
                                 [f1 EXCEPT !.req = FALSE, !.stage = "Tunnel",
                                            !.tunnels = @ + 1], o)
      [] f.stage = "Client" ->
            LET f1 == [f EXCEPT !.log = Append(@, <<"Client", o.io>>)]
            IN  CASE o.io = "Pending" -> [f1 EXCEPT !.out = ConnPending]
                  [] o.io = "Err" -> [f1 EXCEPT !.out = ReadyErr("SendRequestError")]
                  [] OTHER -> [f1 EXCEPT !.out = ReadyOk("Client")]
      [] OTHER ->
            LET f1 == [f EXCEPT !.log = Append(@, <<"Tunnel", o.io>>)]
            IN  CASE o.io = "Pending" -> [f1 EXCEPT !.out = ConnPending]
                  [] o.io = "Err" -> [f1 EXCEPT !.out = ReadyErr("SendRequestError")]
                  [] OTHER -> [f1 EXCEPT !.out = ReadyOk("Tunnel")]

\* ConnectResponse::into_client_response
into_client_response(res) ==
    IF res.variant = "Client" THEN "ClientResponse" ELSE "panic"

\* ConnectResponse::into_tunnel_response
into_tunnel_response(res) ==
    IF res.variant = "Tunnel" THEN "TunnelResponse" ELSE "panic"

ConnFrame ==
    UNCHANGED <<factory, resp, handler, lastPoll, everReady, observedReady,
                contract, dispatchers, bags, callLog, hookCalls, built>>

\* A caller hands a request to the connector service.
ConnCall ==
    /\ Len(futs) < MaxFuts
    /\ \E kind \in Variants : futs' = Append(futs, DefaultConnector_call(kind))
    /\ ConnFrame

\* The executor polls a future that has not resolved yet.
ConnPoll ==
    /\ \E i \in DOMAIN futs :
          /\ futs[i].out.tag \in {"NotPolled", "Pending"}
          /\ \E conn \in ConnOutcomes, io \in ConnOutcomes :
                futs' = [futs EXCEPT ![i] =
                            ConnectRequestFuture_poll([@ EXCEPT !.log = <<>>],
                                                      [conn |-> conn, io |-> io])]
    /\ ConnFrame

\* The caller converts a successful result into the response it asked for,
\* or into the other one.
ConnConvert ==
    /\ \E i \in DOMAIN futs :
          /\ futs[i].out.tag = "Ok"
          /\ futs[i].conv.into = None
          /\ \/ futs' = [futs EXCEPT ![i].conv =
                    [into |-> "Client", res |-> into_client_response(futs[i].out)]]
             \/ futs' = [futs EXCEPT ![i].conv =
                    [into |-> "Tunnel", res |-> into_tunnel_response(futs[i].out)]]
    /\ ConnFrame

ConnInit ==
    /\ factory = H1Service(FALSE, FALSE, FALSE)
    /\ contract = TRUE
    /\ resp = NoResp
    /\ handler = NoHandler
    /\ lastPoll = NoPoll
    /\ everReady = FALSE
    /\ observedReady = FALSE
    /\ dispatchers = <<>>
    /\ bags = <<>>
    /\ callLog = <<>>
    /\ hookCalls = [io \in Streams |-> 0]
    /\ futs = <<>>
    /\ built = NotBuilt

ConnNext == ConnCall \/ ConnPoll \/ ConnConvert

ConnSpec == ConnInit /\ [][ConnNext]_vars

----------------------------------------------------------------------------
(* The H1Service builder: with_config, expect, upgrade, on_connect_ext *)

\* The default expect factory with_config installs.
ExpectHandler == "ExpectHandler"

\* Arguments the builder methods are called with.
ExpectArgs == {"X1", "X2"}
UpgradeArgs == {None, "U1", "U2"}
CallbackArgs == {None, "F1", "F2"}

\* H1Service::with_config
H1Service_with_config(cfg, service) ==
    [srv |-> service, cfg |-> cfg, expect |-> ExpectHandler,
     upgrade |-> None, on_connect_ext |-> None]

\* Variant of H1Service_expect that rebuilds the service from its defaults
\* and so loses the upgrade factory.
H1Service_expect_ResetUpgrade(self, x) ==
    [srv |-> self.srv, cfg |-> self.cfg, expect |-> x,
     upgrade |-> None, on_connect_ext |-> self.on_connect_ext]

\* H1Service::expect
H1Service_expect(self, x) ==
    [srv |-> self.srv, cfg |-> self.cfg, expect |-> x,
     upgrade |-> self.upgrade, on_connect_ext |-> self.on_connect_ext]

\* H1Service::upgrade
H1Service_upgrade(self, u) ==
    [srv |-> self.srv, cfg |-> self.cfg, expect |-> self.expect,
     upgrade |-> u, on_connect_ext |-> self.on_connect_ext]

\* H1Service::on_connect_ext
H1Service_on_connect_ext(self, f) == [self EXCEPT !.on_connect_ext = f]

BuildFrame ==
    UNCHANGED <<resp, handler, lastPoll, everReady, observedReady, contract,
                dispatchers, bags, callLog, hookCalls, futs>>

BuildExpect ==
    /\ built.n < MaxBuild
    /\ \E x \in ExpectArgs :
          /\ factory' = H1Service_expect(factory, x)
          /\ built' = [built EXCEPT !.expect = x, !.n = @ + 1]
    /\ BuildFrame

BuildUpgrade ==
    /\ built.n < MaxBuild
    /\ \E u \in UpgradeArgs :
          /\ factory' = H1Service_upgrade(factory, u)
          /\ built' = [built EXCEPT !.upgrade = u, !.n = @ + 1]
    /\ BuildFrame

BuildOnConnect ==
    /\ built.n < MaxBuild
    /\ \E f \in CallbackArgs :
          /\ factory' = H1Service_on_connect_ext(factory, f)
          /\ built' = [built EXCEPT !.callback = f, !.n = @ + 1]
    /\ BuildFrame

BuildInit ==
    /\ \E ka \in BOOLEAN :
          /\ factory = H1Service_with_config([keep_alive |-> ka], "AppFactory")
          /\ built = [NotBuilt EXCEPT !.cfg = [keep_alive |-> ka]]
    /\ contract = TRUE
    /\ resp = NoResp
    /\ handler = NoHandler
    /\ lastPoll = NoPoll
    /\ everReady = FALSE
    /\ observedReady = FALSE
    /\ dispatchers = <<>>
    /\ bags = <<>>
    /\ callLog = <<>>
    /\ hookCalls = [io \in Streams |-> 0]
    /\ futs = <<>>

BuildNext == BuildExpect \/ BuildUpgrade \/ BuildOnConnect

BuildSpec == BuildInit /\ [][BuildNext]_vars

----------------------------------------------------------------------------
(* Properties *)

Polled == lastPoll.polled # <<>>
\* In the poll_ready call recorded in obs, some polled service answered Err.
AnyErr(obs, h) == \E s \in Held(h) \cap DOMAIN obs : obs[s] = "Err"
\* Every held service was polled and answered Ready.
AllReady(obs, h) == \A s \in Held(h) : s \in DOMAIN obs /\ obs[s] = "Ready"

\* C1: poll_ready returns Ready(Ok) if and only if, in that call, every held
\* service (expect, application and the configured upgrade service) reports
\* ready; with no error and some service not ready it returns Pending.
C1_ReadyIffAllReady ==
    Polled =>
        /\ (lastPoll.result = PollReadyOk <=> AllReady(lastPoll.obs, handler))
        /\ (~AnyErr(lastPoll.obs, handler) /\ ~AllReady(lastPoll.obs, handler)
                => lastPoll.result = PollPending)

\* C1 witness: a poll_ready that returned Ready(Ok) with an upgrade service held.
C1_Witness ==
    /\ handler.upgrade # None
    /\ lastPoll.result = PollReadyOk

\* C2 as stated: every Dispatcher is constructed after some earlier poll_ready
\* on the handler returned Ready(Ok).
C2_Original ==
    \A i \in DOMAIN dispatchers : dispatchers[i].afterReady

\* C2 amended: call constructs a Dispatcher unconditionally; when the caller
\* honours the Service contract (call only after a poll_ready returned
\* Ready(Ok)), every Dispatcher is constructed after all held sub-services
\* have been observed ready in one poll_ready call.
C2_Amended ==
    contract => \A i \in DOMAIN dispatchers :
                    dispatchers[i].afterReady /\ dispatchers[i].afterObserved

\* C2 witness: a contract-honouring caller has had a Dispatcher built.
C2_Witness ==
    /\ contract
    /\ Len(dispatchers) >= 1

\* C3: when a held sub-service answers poll_ready with an error, the handler's
\* poll_ready returns that error wrapped as DispatchError::Service (never
\* Ready(Ok), never Pending), whatever the other services answer, and the call
\* constructs no Dispatcher.
C3_ErrorIsFatal ==
    [][(lastPoll'.n # lastPoll.n /\ AnyErr(lastPoll'.obs, handler'))
          => /\ lastPoll'.result.tag = "Err"
             /\ lastPoll'.result.err = "DispatchError::Service"
             /\ lastPoll'.obs[lastPoll'.result.src] = "Err"
             /\ dispatchers' = dispatchers]_vars

\* C3 witness: poll_ready returned the application service's error although
\* the expect service was ready, with a Dispatcher already built.
C3_Witness ==
    /\ lastPoll.result = DispatchErrorService("srv")
    /\ lastPoll.polled = <<"expect", "srv">>
    /\ lastPoll.obs["expect"] = "Ready"
    /\ Len(dispatchers) >= 1

\* The final responses on a connection's wire, in the order written.
Responses(d) ==
    LET IsResponse(m) == m.kind = "response"
    IN  SelectSeq(d.wire, IsResponse)

\* C4: within one connection the responses are written in exactly the order
\* in which their requests arrived (request i is the i-th to arrive).
C4_ResponsesInOrder ==
    \A c \in DOMAIN dispatchers :
        \A i \in DOMAIN Responses(dispatchers[c]) :
            Responses(dispatchers[c])[i].req = i

\* C4 witness: two pipelined requests have both been answered.
C4_Witness ==
    \E c \in DOMAIN dispatchers :
        /\ dispatchers[c].nread >= 2
        /\ Len(Responses(dispatchers[c])) >= 2

\* The number of request heads decoded so far on a connection.
Decoded(d) == d.nread - Len(d.readbuf)

\* C5: at most one request is active, and only in ExpectCall, ServiceCall or
\* SendPayload; it is the head decoded last, and every head decoded before it
\* has had its response fully encoded, so a head waiting in the read buffer
\* is decoded only after the previous response is complete.
C5_OneActiveRequest ==
    \A c \in DOMAIN dispatchers :
        LET d == dispatchers[c]
        IN  /\ Cardinality(d.active) <= 1
            /\ d.active \subseteq {Decoded(d)}
            /\ d.state \in {"ExpectCall", "ServiceCall", "SendPayload"} => d.active # {}
            /\ d.state = "Normal" => d.active = {}
            /\ \A r \in 1..Decoded(d) :
                  r \notin d.active =>
                      \E i \in DOMAIN d.wire :
                          d.wire[i].kind = "response" /\ d.wire[i].req = r

\* C5 witness: a request is in ServiceCall while a pipelined head waits in
\* the read buffer.
C5_Witness ==
    \E c \in DOMAIN dispatchers :
        /\ dispatchers[c].state = "ServiceCall"
        /\ dispatchers[c].readbuf # <<>>

\* C6: call invokes a configured on_connect_ext exactly once per accepted
\* stream, with that stream and that connection's Extensions bag, before the
\* Dispatcher for the stream is constructed; without a callback none is invoked.
C6_HookOnceBeforeDispatcher ==
    /\ \A s \in Streams :
          hookCalls[s] = IF s <= Len(dispatchers) /\ handler.on_connect_ext # None
                         THEN 1 ELSE 0
    /\ dispatchers # <<>> =>
          LET d == dispatchers[Len(dispatchers)]
          IN  callLog = IF handler.on_connect_ext # None
                        THEN <<Event("Extensions::new", 0, d.ext),
                               Event("on_connect_ext", d.io, d.ext),
                               Event("Dispatcher::new", d.io, d.ext)>>
                        ELSE <<Event("Extensions::new", 0, d.ext),
                               Event("Dispatcher::new", d.io, d.ext)>>

\* C6 witness: two streams accepted by a handler with a callback.
C6_Witness ==
    /\ handler.on_connect_ext # None
    /\ Len(dispatchers) >= 2
    /\ hookCalls[2] = 1

\* C7: every call starts from a fresh empty Extensions bag handed to exactly
\* one Dispatcher: no two Dispatchers hold the same bag, and a bag holds only
\* what on_connect_ext stamped for its own connection.
C7_BagsNotShared ==
    /\ \A i, j \in DOMAIN dispatchers :
          i # j => dispatchers[i].ext # dispatchers[j].ext
    /\ \A i \in DOMAIN dispatchers :
          /\ dispatchers[i].ext \in DOMAIN bags
          /\ bags[dispatchers[i].ext] =
                IF handler.on_connect_ext # None THEN {Stamp(dispatchers[i].io)}
                                               ELSE {}
    /\ Len(bags) = Len(dispatchers)

\* C7 witness: two connections, each with its own stamped bag.
C7_Witness ==
    /\ Len(dispatchers) >= 2
    /\ bags[dispatchers[1].ext] = {Stamp(1)}
    /\ bags[dispatchers[2].ext] = {Stamp(2)}

\* A poll_ready step in which a service that answered ready in the previous
\* poll_ready call is polled again and now answers pending.
BecomesNotReady ==
    /\ lastPoll'.n # lastPoll.n
    /\ Polled
    /\ \E s \in DOMAIN lastPoll.obs \cap DOMAIN lastPoll'.obs :
          lastPoll.obs[s] = "Ready" /\ lastPoll'.obs[s] = "Pending"

\* C8 as stated: when a sub-service that was ready becomes not ready,
\* poll_ready returns Pending and leaves every Dispatcher unchanged.
C8_Original ==
    [][BecomesNotReady
          => lastPoll'.result = PollPending /\ dispatchers' = dispatchers]_vars

\* C8 amended: when a sub-service that was ready becomes not ready,
\* poll_ready returns Pending, or the DispatchError::Service error if another
\* sub-service reports an error in the same call, never Ready(Ok), and
\* leaves every Dispatcher unchanged.
C8_Amended ==
    [][BecomesNotReady
          => /\ lastPoll'.result = IF AnyErr(lastPoll'.obs, handler)
                                   THEN DispatchErrorService(lastPoll'.result.src)
                                   ELSE PollPending
             /\ dispatchers' = dispatchers]_vars

\* C8 witness: after a Ready(Ok), poll_ready returned Pending with a
\* Dispatcher in flight.
C8_Witness ==
    /\ everReady
    /\ lastPoll.result = PollPending
    /\ Len(dispatchers) >= 1

\* C9: the init future resolves Ok(handler) only in a poll in which the
\* application init future returned Ok, after the expect init future and the
\* configured upgrade init future have completed successfully; the expect
\* slot is then filled (the unwrap does not panic) and the handler holds an
\* upgrade service iff an upgrade factory was configured.
C9_InitOk ==
    /\ resp.out # "UnwrapPanic"
    /\ handler # NoHandler <=> resp.out = "Ok"
    /\ resp.out = "Ok" =>
          /\ resp.log[Len(resp.log)] = <<"fut", "Ok">>
          /\ resp.ex_done
          /\ factory.upgrade # None => resp.upg_done
          /\ handler.expect = ExpectSvc
          /\ handler.srv = AppSvc
          /\ handler.upgrade = IF factory.upgrade # None THEN UpgradeSvc ELSE None

\* C9 witness: the future resolved Ok with an upgrade factory configured, the
\* expect future having resolved in an earlier poll.
C9_Witness ==
    /\ resp.out = "Ok"
    /\ factory.upgrade # None
    /\ resp.log[1][1] # "fut_ex"

\* C10: if the expect, upgrade or application init future fails, the init
\* future resolves Err(()) in that poll and no handler is constructed.
C10_InitErr ==
    (\E i \in DOMAIN resp.log : resp.log[i][2] = "Err")
        => resp.out = "Err" /\ handler = NoHandler

\* C10 witness: the upgrade init future failed after the expect future
\* resolved.
C10_Witness ==
    /\ resp.out = "Err"
    /\ resp.log # <<>>
    /\ resp.log[Len(resp.log)] = <<"fut_upg", "Err">>
    /\ resp.ex_done

\* C11: call does not mutate the handler: after any sequence of calls the
\* handler is the one the init future built (same config, services and
\* callback), and every Dispatcher holds a clone of the handler's config,
\* application service, expect service and optional upgrade service.
C11_HandlerUnchanged ==
    dispatchers # <<>> =>
        /\ handler = BuiltHandler(factory)
        /\ \A i \in DOMAIN dispatchers :
              /\ dispatchers[i].cfg = handler.cfg
              /\ dispatchers[i].srv = handler.srv
              /\ dispatchers[i].expect = handler.expect
              /\ dispatchers[i].upgrade = handler.upgrade

\* C11 witness: two Dispatchers built by a handler that holds an upgrade
\* service and a callback.
C11_Witness ==
    /\ Len(dispatchers) >= 2
    /\ handler.upgrade = UpgradeSvc
    /\ handler.on_connect_ext # None
    /\ dispatchers[2].upgrade = UpgradeSvc

\* The read buffer holds no bytes: neither a complete head nor part of one.
ReadBufferEmpty(d) == d.readbuf = <<>> /\ ~d.partial

\* C12: whenever ka_timer is armed the dispatcher is in Normal and its read
\* buffer is empty: from the initial state (armed at now +
\* client_request_timeout), through the partial arrival of a request head,
\* and on every keep-alive cycle. States in which a complete head is about
\* to be decoded in the same wake are left out.
C12_TimerOnlyWhenIdle ==
    \A c \in DOMAIN dispatchers :
        LET d == dispatchers[c]
        IN  d.ka_timer /\ ~CanDecode(d) =>
                d.state = "Normal" /\ ReadBufferEmpty(d)

\* C13: the dispatcher is in Upgrade only if an upgrade service is
\* configured; the framed connection is moved to the upgrade service at most
\* once, and once it is moved the dispatcher never changes again (no read,
\* no write, no state transition).
C13_UpgradeIsFinal ==
    [][\A c \in DOMAIN dispatchers :
          LET d == dispatchers[c]
              e == dispatchers'[c]
          IN  /\ e.state = "Upgrade" => e.upgrade # None
              /\ e.handoffs <= 1
              /\ e.framed = "moved" => e.handoffs = 1 /\ e.state = "Upgrade"
              /\ d.state = "Upgrade" =>
                    /\ e.state = "Upgrade"
                    /\ e.wire = d.wire
                    /\ e.readbuf = d.readbuf /\ e.nread = d.nread
              /\ d.framed = "moved" => e = d]_vars

C13_Witness ==
    \E c \in DOMAIN dispatchers :
        /\ dispatchers[c].framed = "moved"
        /\ dispatchers[c].handoffs = 1
        /\ dispatchers[c].upgrade = UpgradeSvc

\* C14: with keep_alive = 0 every response carries Connection: close, at
\* most one request head is ever decoded, and once it has been decoded the
\* dispatcher never is in Normal again: after the one exchange it goes to
\* Shutdown and terminates.
C14_NoKeepAlive ==
    \A c \in DOMAIN dispatchers :
        LET d == dispatchers[c]
        IN  ~d.cfg.keep_alive =>
                /\ \A i \in DOMAIN d.wire :
                      d.wire[i].kind = "response" => d.wire[i].close
                /\ Decoded(d) <= 1
                /\ Len(Responses(d)) <= 1
                /\ Decoded(d) = 1 => d.state # "Normal"
                /\ Responses(d) # <<>> => ~d.keepalive
                /\ (Responses(d) # <<>> /\ d.active = {}) =>
                      d.state \in {"Shutdown", "Done"}

C14_Witness ==
    \E c \in DOMAIN dispatchers :
        /\ ~dispatchers[c].cfg.keep_alive
        /\ dispatchers[c].state = "Done"
        /\ dispatchers[c].nread = 2
        /\ Len(Responses(dispatchers[c])) = 1

\* C15: when the expect service refuses a request that carries Expect:
\* 100-continue, the error response is sent and no 100 Continue is written
\* for it, the application service is never invoked with it, its body is
\* never read, keep-alive is denied and the dispatcher goes to Shutdown.
C15_ExpectRejected ==
    \A c \in DOMAIN dispatchers :
        LET d == dispatchers[c]
        IN  \A r \in d.rejected :
                /\ \A i \in DOMAIN d.wire :
                      d.wire[i].req = r =>
                          d.wire[i].kind = "response" /\ d.wire[i].close
                /\ \E i \in DOMAIN d.wire : d.wire[i].req = r
                /\ r \notin d.invoked
                /\ r \notin d.bodyRead
                /\ ~d.keepalive
                /\ d.state \in {"SendPayload", "Shutdown", "Done"}
                /\ d.state = "SendPayload" => d.active = {r}

C15_Witness ==
    \E c \in DOMAIN dispatchers :
        /\ dispatchers[c].rejected # {}
        /\ dispatchers[c].state = "Done"
        /\ dispatchers[c].cfg.keep_alive

\* The init futures a poll of H1ServiceResponse polled, in order.
PolledFuts(r) == [i \in DOMAIN r.log |-> r.log[i][1]]

\* Future name f is among the futures the poll polled.
PolledFut(r, f) == \E i \in DOMAIN r.log : r.log[i][1] = f

\* C17: once the expect (or upgrade) init future has returned Ready(Ok) its
\* slot is cleared and no later poll of H1ServiceResponse polls it again,
\* also when the application future is Pending and the whole future is
\* polled again.
C17_ResolvedNeverRepolled ==
    [][resp' # resp =>
          /\ resp'.ex_done => ~resp'.fut_ex
          /\ resp'.upg_done => ~resp'.fut_upg
          /\ resp.ex_done => ~PolledFut(resp', "fut_ex")
          /\ resp.upg_done => ~PolledFut(resp', "fut_upg")]_vars

\* Position of an init future in the order expect, upgrade, application.
FutRank(f) == CASE f = "fut_ex" -> 1 [] f = "fut_upg" -> 2 [] OTHER -> 3

\* C18: within every poll the init futures are polled in the order expect,
\* upgrade, application; a future is polled only when every future polled
\* before it in this poll returned Ready(Ok); the upgrade future is polled
\* only once the expect future has completed, and the application future
\* only once the expect future and, if configured, the upgrade future have.
C18_SlotsInOrder ==
    /\ \A i, j \in DOMAIN resp.log :
          i < j => /\ FutRank(resp.log[i][1]) < FutRank(resp.log[j][1])
                   /\ resp.log[i][2] = "Ok"
    /\ PolledFut(resp, "fut_upg") => resp.ex_done
    /\ PolledFut(resp, "fut") =>
          /\ resp.ex_done
          /\ factory.upgrade # None => resp.upg_done

C18_Witness ==
    /\ factory.upgrade # None
    /\ resp.log = <<<<"fut_ex", "Ok">>, <<"fut_upg", "Ok">>, <<"fut", "Pending">>>>

\* The services the handler holds, in poll order.
HeldInOrder(h) ==
    IF h.upgrade # None THEN <<"expect", "srv", "upgrade">> ELSE <<"expect", "srv">>

\* C19: poll_ready polls expect, srv, upgrade in that order; when no service
\* answers with an error every held service is polled exactly once, also
\* when an earlier one was Pending; the first error ends the call and is its
\* result.
C19_PollsAllInOrder ==
    lastPoll # NoPoll =>
        LET p == lastPoll.polled
            all == HeldInOrder(handler)
        IN  /\ Len(p) <= Len(all)
            /\ p = SubSeq(all, 1, Len(p))
            /\ lastPoll.result.tag # "Err" => p = all
            /\ lastPoll.result.tag = "Err" =>
                  /\ lastPoll.result.src = p[Len(p)]
                  /\ lastPoll.obs[p[Len(p)]] = "Err"
            /\ \A i \in 1..(Len(p) - 1) : lastPoll.obs[p[i]] # "Err"
            /\ (Len(p) < Len(all) \/ lastPoll.obs[p[Len(p)]] = "Err") =>
                  lastPoll.result.tag = "Err"

C19_Witness ==
    /\ lastPoll # NoPoll
    /\ handler.upgrade # None
    /\ lastPoll.polled = <<"expect", "srv", "upgrade">>
    /\ lastPoll.obs["expect"] = "Pending"
    /\ lastPoll.obs["srv"] = "Ready"
    /\ lastPoll.result = PollPending

\* C20: a future returned for a ConnectRequest::Client resolves only to
\* ConnectResponse::Client or to an error, one for a ConnectRequest::Tunnel
\* only to ConnectResponse::Tunnel or to an error; into_client_response and
\* into_tunnel_response applied to a successful result panic exactly when
\* they are applied to the other variant, so never on the result of a
\* request of their own kind.
C20_VariantMatchesRequest ==
    \A i \in DOMAIN futs :
        LET f == futs[i]
        IN  /\ f.out.tag \in {"NotPolled", "Pending", "Ok", "Err"}
            /\ f.out.tag = "Ok" => f.out.variant = f.kind
            /\ f.conv.into # None =>
                  /\ f.conv.res = "panic" <=> f.conv.into # f.out.variant
                  /\ f.conv.into = f.kind => f.conv.res # "panic"

C20_Witness ==
    /\ Len(futs) = 2
    /\ futs[1].kind = "Client" /\ futs[1].conv.res = "ClientResponse"
    /\ futs[2].kind = "Tunnel" /\ futs[2].conv.res = "TunnelResponse"

\* C21: ConnectRequestFuture only moves forward: it leaves Connection for
\* Client exactly for a Client request and for Tunnel exactly for a Tunnel
\* request, never returns to Connection and never changes between Client
\* and Tunnel; the stored request is taken once, on leaving Connection, and
\* over all polls the request is sent at most once: one send_request or one
\* open_tunnel, never both.
C21_OnlyForward ==
    [][\A i \in DOMAIN futs :
          LET f == futs[i]
              g == futs'[i]
          IN  /\ f.stage # "Connection" => g.stage = f.stage
              /\ g.stage # "Connection" => g.stage = g.kind
              /\ g.req <=> g.stage = "Connection"
              /\ ~f.req => ~g.req
              /\ g.sends >= f.sends /\ g.tunnels >= f.tunnels
              /\ g.sends + g.tunnels = (IF g.req THEN 0 ELSE 1)
              /\ g.sends = 1 => g.kind = "Client"
              /\ g.tunnels = 1 => g.kind = "Tunnel"]_vars

C21_Witness ==
    \E i \in DOMAIN futs :
        /\ futs[i].stage = "Client"
        /\ futs[i].sends = 1 /\ futs[i].tunnels = 0
        /\ futs[i].log = <<<<"Client", "Pending">>>>
        /\ futs[i].out = ConnPending

\* C22: when the connector future fails while the future is in Connection,
\* that poll resolves to an error (the connect error), the future is still
\* in Connection and holds the request, and neither send_request nor
\* open_tunnel has been called.
C22_ConnectFailure ==
    \A i \in DOMAIN futs :
        LET f == futs[i]
            failed == \E j \in DOMAIN f.log : f.log[j] = <<"Connection", "Err">>
        IN  /\ failed =>
                  /\ f.out = ReadyErr("SendRequestError::Connect")
                  /\ f.log = <<<<"Connection", "Err">>>>
                  /\ f.stage = "Connection" /\ f.req
                  /\ f.sends = 0 /\ f.tunnels = 0
            /\ f.out.err = "SendRequestError::Connect" => failed

C22_Witness ==
    \E i \in DOMAIN futs :
        /\ futs[i].kind = "Tunnel"
        /\ futs[i].out = ReadyErr("SendRequestError::Connect")
        /\ futs[i].tunnels = 0

\* C23: a poll that returns Pending has polled, last in that call, the
\* future of the state it is in when it returns; in the poll in which the
\* connection becomes ready the request is sent and the new send or tunnel
\* future is polled before the poll returns.
C23_PendingOnlyAfterPolling ==
    \A i \in DOMAIN futs :
        LET f == futs[i]
        IN  /\ f.out = ConnPending =>
                  /\ f.log # <<>>
                  /\ f.log[Len(f.log)] = <<f.stage, "Pending">>
            /\ (f.log # <<>> /\ f.log[1] = <<"Connection", "Ok">>) =>
                  /\ Len(f.log) = 2
                  /\ f.log[2][1] = f.stage
                  /\ f.stage = f.kind
                  /\ f.sends + f.tunnels = 1

C23_Witness ==
    \E i \in DOMAIN futs :
        /\ futs[i].log = <<<<"Connection", "Ok">>, <<"Tunnel", "Pending">>>>
        /\ futs[i].out = ConnPending
        /\ futs[i].tunnels = 1

\* C24: each builder method changes only its own component, and with_config
\* starts with the default ExpectHandler, no upgrade factory and no
\* callback: after any sequence of builder calls, in any order, the service
\* holds the config and application factory given to with_config and, for
\* each of expect, upgrade and on_connect_ext, the argument of the last call
\* of that method, or the default if it was never called.
C24_BuildersIndependent ==
    /\ factory.cfg = built.cfg
    /\ factory.srv = built.srv
    /\ factory.expect = (IF built.expect = Unset THEN ExpectHandler ELSE built.expect)
    /\ factory.upgrade = (IF built.upgrade = Unset THEN None ELSE built.upgrade)
    /\ factory.on_connect_ext =
          (IF built.callback = Unset THEN None ELSE built.callback)

C24_Witness ==
    /\ built.n = 3
    /\ factory.cfg.keep_alive
    /\ factory.expect = "X2"
    /\ factory.upgrade = "U1"
    /\ factory.on_connect_ext = "F2"

====
